---- MODULE Spec2Model ----
(***************************************************************************)
(* Model of the two PicoScope utilities.                                   *)
(*                                                                         *)
(*  - block_capture_single.py: class PicoBlockCap and the module script    *)
(*    that drives it (one action per vendor API call it issues).           *)
(*  - readhdf5.py: read_hdf5, the metadata loop and the per-channel plot   *)
(*    loop.                                                                *)
(*                                                                         *)
(* The vendor driver is the environment: every status code it returns,     *)
(* the ready flag it writes, the sample count it writes back and the       *)
(* max-ADC value it supplies are nondeterministic choices.                 *)
(***************************************************************************)
EXTENDS Integers, Sequences, FiniteSets, TLC

VARIABLES
    pc,            \* index of the script statement being executed
    mpc,           \* position inside the method that statement calls
    trig_mv,       \* threshold_mv argument of the set_simple_trigger calls
    trig_range,    \* range argument of the set_simple_trigger calls
    handle,        \* self.handle
    max_adc,       \* self.max_adc
    max_adc_set,   \* history: ps5000aMaximumValue has written self.max_adc
    samples,       \* self.samples
    max_samples,   \* self.max_samples
    status,        \* self.status
    ready,         \* self.ready
    check,         \* self.check
    polls,         \* history: ps5000aIsReady polls of the current run_block
    calls,         \* history: the vendor API calls issued, polls excepted
    rpc,           \* read_hdf5: position
    file,          \* read_hdf5: the archive opened
    metadata,      \* read_hdf5: the metadata dictionary
    ch,            \* read_hdf5: loop variable of the channel loop
    plots          \* read_hdf5: history of the plots shown

scriptVars == <<pc, mpc, trig_mv, trig_range, handle, max_adc, max_adc_set,
                samples, max_samples, status, ready, check, polls, calls>>
readVars == <<rpc, file, metadata, ch, plots>>
vars == <<pc, mpc, trig_mv, trig_range, handle, max_adc, max_adc_set,
          samples, max_samples, status, ready, check, polls, calls,
          rpc, file, metadata, ch, plots>>

----------------------------------------------------------------------------
(* Bounds of the model.                                                    *)

\* The poll counter saturates here; the poll loop itself is not bounded.
MaxPolls == 2
\* Longest 'active_channels' list of an archive.
MaxActive == 2
\* Channels an archive may hold datasets for: 0 .. MaxChannel.
MaxChannel == 2

----------------------------------------------------------------------------
(* Values the vendor driver hands back.                                    *)

PICO_OK == "PICO_OK"
StatusCodes == {PICO_OK, "PICO_ERROR"}
\* ps5000aIsReady writes 0 (not ready) or a non-zero flag into self.ready.
ReadyValues == {0, 1}
\* ps5000aMaximumValue: the max ADC count of the 8 bit and of the deeper modes.
MaxAdcValues == {32512, 32767}
\* ps5000aGetValuesBulk writes the number of samples it retrieved, at most
\* the number requested, back through noOfSamples.
SamplesReturned(requested) == {requested, requested \div 2}

\* The size given to the constructor by the script.
buffer_size == 100000

----------------------------------------------------------------------------
(* picosdk.functions.mV2adc and Python's int().                            *)

\* Python's round() of the quotient n / d, d > 0: to nearest, ties to even.
round(n, d) ==
    LET q == n \div d
        r == n % d
    IN  IF 2 * r < d THEN q
        ELSE IF 2 * r > d THEN q + 1
        ELSE IF q % 2 = 0 THEN q ELSE q + 1

\* The quotient n / d, d > 0, truncated toward zero.
trunc(n, d) == IF n >= 0 THEN n \div d ELSE -((-n) \div d)

channelInputRanges ==
    <<10, 20, 50, 100, 200, 500, 1000, 2000, 5000, 10000, 20000, 50000,
      100000, 200000>>

\* vRange = channelInputRanges[range], a Python (0-based) index.
vRange(range) == channelInputRanges[range + 1]

mV2adc(millivolts, range, maxADC) ==
    round(millivolts * maxADC, vRange(range))

\* Mutant: the quotient is cut to an integer instead of rounded.
ThresholdCut(threshold_mv, range, maxADC) ==
    trunc(threshold_mv * maxADC, vRange(range))

\* threshold = int(mV2adc(threshold_mv, range, self.max_adc)): int() cuts
\* its argument toward zero, and is handed the integer round() returned.
Threshold(threshold_mv, range, maxADC) ==
    trunc(mV2adc(threshold_mv, range, maxADC), 1)

----------------------------------------------------------------------------
(* The script, as the sequence of statements that call into the object.    *)

Stmt(line, op, channel, en, key) ==
    [line |-> line, op |-> op, channel |-> channel, en |-> en, key |-> key]

\* initalise_parameters, lines 104-111
initalise_parameters ==
    << Stmt(104, "open_unit", 0, FALSE, "openunit"),
       Stmt(105, "set_channel", 0, TRUE, "set_source"),
       Stmt(106, "set_channel", 1, FALSE, "set_source"),
       Stmt(107, "set_channel", 2, FALSE, "set_source"),
       Stmt(108, "set_channel", 3, FALSE, "set_source"),
       Stmt(109, "set_simple_trigger", 0, TRUE, "set_trigger"),
       Stmt(110, "set_captures", 0, FALSE, "set_captures"),
       Stmt(111, "set_buffer", 0, FALSE, "set_buffer") >>

\* the module script after test.initalise_parameters(), lines 163-185
Captures ==
    << Stmt(163, "run_block", 0, FALSE, ""),
       Stmt(165, "plot", 0, FALSE, ""),
       Stmt(170, "run_block", 0, FALSE, ""),
       Stmt(171, "plot", 0, FALSE, ""),
       Stmt(175, "set_channel", 0, FALSE, "set_source"),
       Stmt(176, "set_channel", 1, TRUE, "set_source"),
       Stmt(177, "set_buffer", 1, FALSE, "set_buffer"),
       Stmt(178, "set_simple_trigger", 1, TRUE, ""),
       Stmt(180, "run_block", 0, FALSE, ""),
       Stmt(181, "plot", 0, FALSE, ""),
       Stmt(185, "stop_scope", 0, FALSE, "") >>

\* Mutant: initalise_parameters returns before it sets the data buffer.
ScriptWithoutBuffer ==
    SelectSeq(initalise_parameters, LAMBDA s : s.op # "set_buffer") \o Captures

\* Mutant: the scope is stopped and closed before the last capture.
ScriptStoppingEarly ==
    initalise_parameters
      \o SelectSeq(Captures, LAMBDA s : s.line < 180)
      \o SelectSeq(Captures, LAMBDA s : s.line = 185)
      \o SelectSeq(Captures, LAMBDA s : s.line \in {180, 181})

\* Mutant: the switch to channel 1 leaves the trigger on channel 0.
ScriptKeepingTrigger ==
    initalise_parameters \o SelectSeq(Captures, LAMBDA s : s.line # 178)

\* line 160, then lines 163-185
Script == initalise_parameters \o Captures

Done == pc > Len(Script)
Cur == Script[pc]
At(op, where) == ~Done /\ Cur.op = op /\ mpc = where

StatusKeys ==
    {"openunit", "maximumValue", "set_source", "set_trigger", "MemorySegments",
     "SetNoOfCaptures", "set_captures", "set_buffer", "runblock", "isReady",
     "GetValuesBulk", "stop", "close"}

\* self.status[key] = value; the result of line 178 goes to a local instead.
Store(st, key, value) == IF key = "" THEN st ELSE [st EXCEPT ![key] = value]

Call(api, args) == [api |-> api, line |-> Cur.line, args |-> args]

Return == pc' = pc + 1 /\ mpc' = "entry"

----------------------------------------------------------------------------
(* PicoBlockCap                                                            *)

\* __init__, as the script calls it: PicoBlockCap(0, streaming_buffer, 100000)
Constructed ==
    /\ handle = 0
    /\ max_adc = 0
    /\ max_adc_set = FALSE
    /\ samples = buffer_size
    /\ max_samples = buffer_size
    /\ status = [k \in StatusKeys |-> "unset"]
    /\ ready = 0
    /\ check = 0
    /\ polls = 0
    /\ calls = << >>
    /\ pc = 1
    /\ mpc = "entry"

\* Mutant: open_unit tries again until the unit opens.
OpenUnitRetrying ==
    /\ At("open_unit", "entry")
    /\ \E st \in StatusCodes :
         /\ status' = [status EXCEPT !["openunit"] = st]
         /\ handle' = IF st = PICO_OK THEN 1 ELSE 0
         /\ mpc' = IF st = PICO_OK THEN "MaximumValue" ELSE "entry"
    /\ calls' = Append(calls, Call("ps5000aOpenUnit", <<>>))
    /\ UNCHANGED <<pc, trig_mv, trig_range, max_adc, max_adc_set, samples,
                   max_samples, ready, check, polls>>
    /\ UNCHANGED readVars

\* open_unit, line 52
OpenUnit ==
    /\ At("open_unit", "entry")
    /\ \E st \in StatusCodes :
         /\ status' = [status EXCEPT !["openunit"] = st]
         /\ handle' = IF st = PICO_OK THEN 1 ELSE 0
    /\ calls' = Append(calls, Call("ps5000aOpenUnit", <<>>))
    /\ mpc' = "MaximumValue"
    /\ UNCHANGED <<pc, trig_mv, trig_range, max_adc, max_adc_set, samples,
                   max_samples, ready, check, polls>>
    /\ UNCHANGED readVars

\* open_unit, lines 55-56, and the assignment of its result at line 104
MaximumValue ==
    /\ At("open_unit", "MaximumValue")
    /\ \E st \in StatusCodes, m \in MaxAdcValues :
         /\ status' = Store([status EXCEPT !["maximumValue"] = st],
                            Cur.key, status["openunit"])
         /\ max_adc' = m
    /\ max_adc_set' = TRUE
    /\ calls' = Append(calls, Call("ps5000aMaximumValue", [value |-> max_adc']))
    /\ Return
    /\ UNCHANGED <<trig_mv, trig_range, handle, samples, max_samples, ready,
                   check, polls>>
    /\ UNCHANGED readVars

\* set_channel(channel, en, 0, 9, 0.0)
SetChannel ==
    /\ At("set_channel", "entry")
    /\ \E st \in StatusCodes : status' = Store(status, Cur.key, st)
    /\ calls' = Append(calls, Call("ps5000aSetChannel",
                                   [channel |-> Cur.channel, en |-> Cur.en]))
    /\ Return
    /\ UNCHANGED <<trig_mv, trig_range, handle, max_adc, max_adc_set, samples,
                   max_samples, ready, check, polls>>
    /\ UNCHANGED readVars

\* set_simple_trigger(1, source, range, threshold_mv, 2, 0, 10)
SetSimpleTrigger ==
    /\ At("set_simple_trigger", "entry")
    /\ \E st \in StatusCodes : status' = Store(status, Cur.key, st)
    /\ calls' = Append(calls, Call("ps5000aSetSimpleTrigger",
                  [source |-> Cur.channel,
                   threshold |-> Threshold(trig_mv, trig_range, max_adc),
                   threshold_mv |-> trig_mv,
                   range |-> trig_range,
                   max_adc |-> max_adc,
                   max_adc_set |-> max_adc_set]))
    /\ Return
    /\ UNCHANGED <<trig_mv, trig_range, handle, max_adc, max_adc_set, samples,
                   max_samples, ready, check, polls>>
    /\ UNCHANGED readVars

\* set_captures(1), line 91
MemorySegments ==
    /\ At("set_captures", "entry")
    /\ \E st \in StatusCodes : status' = [status EXCEPT !["MemorySegments"] = st]
    /\ calls' = Append(calls, Call("ps5000aMemorySegments", <<>>))
    /\ mpc' = "SetNoOfCaptures"
    /\ UNCHANGED <<pc, trig_mv, trig_range, handle, max_adc, max_adc_set,
                   samples, max_samples, ready, check, polls>>
    /\ UNCHANGED readVars

\* set_captures(1), lines 93-97, and the assignment of its result at line 110
SetNoOfCaptures ==
    /\ At("set_captures", "SetNoOfCaptures")
    /\ \E st \in StatusCodes :
         status' = Store([status EXCEPT !["SetNoOfCaptures"] = st], Cur.key, st)
    /\ calls' = Append(calls, Call("ps5000aSetNoOfCaptures", <<>>))
    /\ Return
    /\ UNCHANGED <<trig_mv, trig_range, handle, max_adc, max_adc_set, samples,
                   max_samples, ready, check, polls>>
    /\ UNCHANGED readVars

\* set_buffer(channel, buffer, 0): the buffer length passed is self.max_samples
SetDataBuffer ==
    /\ At("set_buffer", "entry")
    /\ \E st \in StatusCodes : status' = Store(status, Cur.key, st)
    /\ calls' = Append(calls, Call("ps5000aSetDataBuffer",
                  [channel |-> Cur.channel, bufferLth |-> max_samples]))
    /\ Return
    /\ UNCHANGED <<trig_mv, trig_range, handle, max_adc, max_adc_set, samples,
                   max_samples, ready, check, polls>>
    /\ UNCHANGED readVars

\* run_block, line 119
RunBlock ==
    /\ At("run_block", "entry")
    /\ \E st \in StatusCodes : status' = [status EXCEPT !["runblock"] = st]
    /\ calls' = Append(calls, Call("ps5000aRunBlock",
                  [noOfSamples |-> samples, ready |-> ready]))
    /\ polls' = 0
    /\ mpc' = "poll"
    /\ UNCHANGED <<pc, trig_mv, trig_range, handle, max_adc, max_adc_set,
                   samples, max_samples, ready, check>>
    /\ UNCHANGED readVars

\* Mutant: the loop condition inverted.
PollingInverted == ready # check

\* Mutant: the loop gives up after MaxPolls polls.
PollingWithTimeout == ready = check /\ polls < MaxPolls

\* The loop condition of line 123.
Polling == ready = check

\* run_block, lines 123-124: one iteration of the poll loop
IsReady ==
    /\ At("run_block", "poll")
    /\ Polling
    /\ \E st \in StatusCodes, r \in ReadyValues :
         /\ status' = [status EXCEPT !["isReady"] = st]
         /\ ready' = r
    /\ polls' = IF polls < MaxPolls THEN polls + 1 ELSE polls
    /\ UNCHANGED <<pc, mpc, trig_mv, trig_range, handle, max_adc, max_adc_set,
                   samples, max_samples, check, calls>>
    /\ UNCHANGED readVars

\* Mutant: run_block returns without resetting self.ready.
ReadyLeftAsIs == ready

\* The value self.ready holds when run_block returns (line 131).
ReadyOnReturn == 0

\* run_block, lines 129-131: the loop is left, the data read back, ready reset
GetValuesBulk ==
    /\ At("run_block", "poll")
    /\ ~Polling
    /\ \E st \in StatusCodes, n \in SamplesReturned(max_samples) :
         /\ status' = [status EXCEPT !["GetValuesBulk"] = st]
         /\ max_samples' = n
    /\ calls' = Append(calls, Call("ps5000aGetValuesBulk",
                  [ready |-> ready, polled |-> polls > 0]))
    /\ ready' = ReadyOnReturn
    /\ polls' = 0
    /\ Return
    /\ UNCHANGED <<trig_mv, trig_range, handle, max_adc, max_adc_set, samples,
                   check>>
    /\ UNCHANGED readVars

\* plt.plot(streaming_buffer[0]); plt.show()
Plot ==
    /\ At("plot", "entry")
    /\ Return
    /\ UNCHANGED <<trig_mv, trig_range, handle, max_adc, max_adc_set, samples,
                   max_samples, status, ready, check, polls, calls>>
    /\ UNCHANGED readVars

\* stop_scope, line 139
Stop ==
    /\ At("stop_scope", "entry")
    /\ \E st \in StatusCodes : status' = [status EXCEPT !["stop"] = st]
    /\ calls' = Append(calls, Call("ps5000aStop", <<>>))
    /\ mpc' = "CloseUnit"
    /\ UNCHANGED <<pc, trig_mv, trig_range, handle, max_adc, max_adc_set,
                   samples, max_samples, ready, check, polls>>
    /\ UNCHANGED readVars

\* stop_scope, lines 140-142
CloseUnit ==
    /\ At("stop_scope", "CloseUnit")
    /\ \E st \in StatusCodes : status' = [status EXCEPT !["close"] = st]
    /\ calls' = Append(calls, Call("ps5000aCloseUnit", <<>>))
    /\ Return
    /\ UNCHANGED <<trig_mv, trig_range, handle, max_adc, max_adc_set, samples,
                   max_samples, ready, check, polls>>
    /\ UNCHANGED readVars

----------------------------------------------------------------------------
(* read_hdf5 is not running while the capture script is.                   *)

EmptyFile == [attrs |-> {}, active_channels |-> << >>, datasets |-> {}]

ReadIdle ==
    /\ rpc = "idle"
    /\ file = EmptyFile
    /\ metadata = << >>
    /\ ch = 0
    /\ plots = << >>

----------------------------------------------------------------------------
(* read_hdf5                                                               *)

Channels == 0 .. MaxChannel
AttrKeys == {"active_channels", "resolution", "timebase"}

\* 'adc_counts_' + str(c) and 'pha_' + str(c)
DatasetName(prefix, c) == <<prefix, c>>
ChannelDatasets(c) == {DatasetName("adc_counts_", c), DatasetName("pha_", c)}

SeqsUpTo(S, n) == UNION {[1 .. k -> S] : k \in 0 .. n}
Range(s) == {s[i] : i \in DOMAIN s}

\* The capture archives: the metadata group carries 'active_channels', and
\* both datasets of every channel it lists are in the file; the datasets of
\* other channels may be there as well.
Archives ==
    {[attrs |-> a, active_channels |-> ac,
      datasets |-> UNION {ChannelDatasets(c) : c \in Range(ac) \cup extra}] :
        a \in {x \in SUBSET AttrKeys : "active_channels" \in x},
        ac \in SeqsUpTo(Channels, MaxActive),
        extra \in SUBSET Channels}

\* metadata_group.attrs[key]
AttrValue(key) ==
    IF key = "active_channels" THEN file.active_channels ELSE "value"

\* Mutant: the loop index is taken for the channel.
ActiveChannelByIndex(i) == i

\* (metadata['active_channels'])[ch], ch a Python (0-based) index
ActiveChannel(i) == metadata["active_channels"][i + 1]

\* lines 9-12
OpenFile ==
    /\ rpc = "open"
    /\ metadata' = << >>
    /\ rpc' = "attrs"
    /\ UNCHANGED <<file, ch, plots>>
    /\ UNCHANGED scriptVars

\* lines 14-16: one iteration of the loop over metadata_group.attrs
ReadAttr ==
    /\ rpc = "attrs"
    /\ \E key \in file.attrs \ DOMAIN metadata :
         metadata' = metadata @@ (key :> AttrValue(key))
    /\ UNCHANGED <<rpc, file, ch, plots>>
    /\ UNCHANGED scriptVars

\* line 18: the attribute loop is over, range(len(...)) starts at 0
EnterChannels ==
    /\ rpc = "attrs"
    /\ file.attrs \ DOMAIN metadata = {}
    /\ ch' = 0
    /\ rpc' = "waveform"
    /\ UNCHANGED <<file, metadata, plots>>
    /\ UNCHANGED scriptVars

\* lines 19-23: both datasets are looked up, then counts[0][:] is plotted
PlotWaveform ==
    /\ rpc = "waveform"
    /\ ch < Len(metadata["active_channels"])
    /\ ChannelDatasets(ActiveChannel(ch)) \subseteq file.datasets
    /\ plots' = Append(plots,
                  [kind |-> "waveform",
                   dataset |-> DatasetName("adc_counts_", ActiveChannel(ch)),
                   capture |-> 0])
    /\ rpc' = "pha"
    /\ UNCHANGED <<file, metadata, ch>>
    /\ UNCHANGED scriptVars

\* lines 25-29: pha[0] against pha[1] is plotted, the loop goes on
PlotPHA ==
    /\ rpc = "pha"
    /\ plots' = Append(plots,
                  [kind |-> "pha",
                   dataset |-> DatasetName("pha_", ActiveChannel(ch)),
                   capture |-> 0])
    /\ ch' = ch + 1
    /\ rpc' = "waveform"
    /\ UNCHANGED <<file, metadata>>
    /\ UNCHANGED scriptVars

\* the range is exhausted: the with block closes the file
CloseFile ==
    /\ rpc = "waveform"
    /\ ch >= Len(metadata["active_channels"])
    /\ rpc' = "done"
    /\ UNCHANGED <<file, metadata, ch, plots>>
    /\ UNCHANGED scriptVars

InitRead ==
    /\ Constructed
    /\ trig_mv = 0
    /\ trig_range = 9
    /\ rpc = "open"
    /\ file \in Archives
    /\ metadata = << >>
    /\ ch = 0
    /\ plots = << >>

NextRead ==
    \/ OpenFile
    \/ ReadAttr
    \/ EnterChannels
    \/ PlotWaveform
    \/ PlotPHA
    \/ CloseFile

SpecRead == InitRead /\ [][NextRead]_vars

----------------------------------------------------------------------------
(* The capture script as written: both triggers are set at 0 mV, range 9.  *)

Init ==
    /\ Constructed
    /\ trig_mv = 0
    /\ trig_range = 9
    /\ ReadIdle

Next ==
    \/ OpenUnit
    \/ MaximumValue
    \/ SetChannel
    \/ SetSimpleTrigger
    \/ MemorySegments
    \/ SetNoOfCaptures
    \/ SetDataBuffer
    \/ RunBlock
    \/ IsReady
    \/ GetValuesBulk
    \/ Plot
    \/ Stop
    \/ CloseUnit

Spec == Init /\ [][Next]_vars

----------------------------------------------------------------------------
(* The same script with the threshold and range given to                   *)
(* set_simple_trigger drawn from bounded sets, the script's own 0 mV and   *)
(* range 9 among them.                                                     *)

\* <<threshold_mv, range>>: a quotient that is an integer, one that is not
\* (and negative), and one that lies halfway between two integers.
TriggerInputs == {<<0, 9>>, <<-2, 9>>, <<5, 0>>}

InitTrig ==
    /\ Constructed
    /\ \E in \in TriggerInputs : trig_mv = in[1] /\ trig_range = in[2]
    /\ ReadIdle

SpecTrig == InitTrig /\ [][Next]_vars

----------------------------------------------------------------------------
(* The script under the one scheduling fact Python gives: the interpreter  *)
(* keeps executing statements while there is one to execute.  Nothing is   *)
(* assumed of the device.                                                  *)

LiveSpec == Init /\ [][Next]_vars /\ WF_vars(Next)

----------------------------------------------------------------------------
(* Reading the call history.                                               *)

Issued(api) == {i \in DOMAIN calls : calls[i].api = api}
ApiNames == [i \in DOMAIN calls |-> calls[i].api]
IsPrefix(s, t) == Len(s) <= Len(t) /\ \A i \in DOMAIN s : s[i] = t[i]

\* The last call of api among the first n calls, 0 when there is none.
LastIssued(api, n) ==
    LET S == {i \in Issued(api) : i <= n}
    IN  IF S = {} THEN 0 ELSE CHOOSE i \in S : \A j \in S : j <= i

\* Channel c is enabled by the calls issued so far, the first n of them.
EnabledAfter(c, n) ==
    LET S == {i \in Issued("ps5000aSetChannel") :
                i <= n /\ calls[i].args.channel = c}
    IN  /\ S # {}
        /\ calls[CHOOSE i \in S : \A j \in S : j <= i].args.en

\* What initalise_parameters is to have issued, MaximumValue left aside.
ConfigCalls ==
    << <<"ps5000aOpenUnit", -1>>,
       <<"ps5000aSetChannel", 0>>, <<"ps5000aSetChannel", 1>>,
       <<"ps5000aSetChannel", 2>>, <<"ps5000aSetChannel", 3>>,
       <<"ps5000aSetSimpleTrigger", -1>>,
       <<"ps5000aMemorySegments", -1>>, <<"ps5000aSetNoOfCaptures", -1>>,
       <<"ps5000aSetDataBuffer", -1>> >>

ConfigOf(c) ==
    <<c.api, IF c.api = "ps5000aSetChannel" THEN c.args.channel ELSE -1>>

\* The configuration calls among the first n calls, in the order issued.
ConfigIssued(n) ==
    LET sel == SelectSeq(SubSeq(calls, 1, n),
                         LAMBDA c : c.api # "ps5000aMaximumValue")
    IN  [i \in DOMAIN sel |-> ConfigOf(sel[i])]

InitLines == 104 .. 111

\* The calls of the whole script, the polls left aside.
ExpectedCalls ==
    << "ps5000aOpenUnit", "ps5000aMaximumValue",
       "ps5000aSetChannel", "ps5000aSetChannel", "ps5000aSetChannel",
       "ps5000aSetChannel", "ps5000aSetSimpleTrigger",
       "ps5000aMemorySegments", "ps5000aSetNoOfCaptures",
       "ps5000aSetDataBuffer",
       "ps5000aRunBlock", "ps5000aGetValuesBulk",
       "ps5000aRunBlock", "ps5000aGetValuesBulk",
       "ps5000aSetChannel", "ps5000aSetChannel", "ps5000aSetDataBuffer",
       "ps5000aSetSimpleTrigger",
       "ps5000aRunBlock", "ps5000aGetValuesBulk",
       "ps5000aStop", "ps5000aCloseUnit" >>

\* run_block is executing: RunBlock has been issued, the method not left.
InRunBlock == ~Done /\ Cur.op = "run_block" /\ mpc = "poll"

----------------------------------------------------------------------------
(* C1: every ps5000aRunBlock call comes after the complete configuration   *)
(* issued inside initalise_parameters, in this order: OpenUnit, SetChannel *)
(* for channels 0, 1, 2, 3, SetSimpleTrigger, MemorySegments,              *)
(* SetNoOfCaptures, SetDataBuffer.                                         *)
C1_ConfiguredBeforeRunBlock ==
    \A i \in Issued("ps5000aRunBlock") :
        /\ i > Len(ConfigCalls) + 1
        /\ ConfigIssued(Len(ConfigCalls) + 1) = ConfigCalls
        /\ \A j \in 1 .. Len(ConfigCalls) + 1 : calls[j].line \in InitLines

C1_Witness ==
    /\ Cardinality(Issued("ps5000aRunBlock")) = 3
    /\ status["set_buffer"] = "PICO_ERROR"

(* C2: ps5000aGetValuesBulk is called only right after the ps5000aRunBlock *)
(* of the same run_block invocation, after at least one ps5000aIsReady     *)
(* poll made since then, and with a ready flag different from check, which *)
(* was still equal to check when RunBlock was issued.                      *)
C2_ReadBackOnlyWhenReady ==
    \A i \in Issued("ps5000aGetValuesBulk") :
        /\ i > 1
        /\ calls[i - 1].api = "ps5000aRunBlock"
        /\ calls[i - 1].line = calls[i].line
        /\ calls[i - 1].args.ready = check
        /\ calls[i].args.polled
        /\ calls[i].args.ready # check
        /\ calls[i].args.ready # 0

C2_Witness ==
    /\ Cardinality(Issued("ps5000aGetValuesBulk")) = 2
    /\ InRunBlock
    /\ polls = MaxPolls
    /\ ready # check

(* C4: whatever status codes the API returns, the calls issued are the     *)
(* same sequence (polls aside): at every moment a prefix of the one fixed  *)
(* sequence, and the whole of it once the script is over; no call is       *)
(* issued again after an error.                                            *)
C4_StatusNeverSteers ==
    /\ IsPrefix(ApiNames, ExpectedCalls)
    /\ Done => ApiNames = ExpectedCalls

C4_Witness ==
    /\ Done
    /\ handle = 0
    /\ \A k \in StatusKeys : status[k] = "PICO_ERROR"

(* C5: ps5000aOpenUnit is the first call; ps5000aStop is issued once,      *)
(* after the third and last run_block has returned, and directly before    *)
(* the one ps5000aCloseUnit, after which no call is issued; the polls of   *)
(* run_block come after the open and before the stop.                      *)
C5_OpenFirstCloseLast ==
    /\ calls # << >> => calls[1].api = "ps5000aOpenUnit"
    /\ Cardinality(Issued("ps5000aStop")) <= 1
    /\ Cardinality(Issued("ps5000aCloseUnit")) <= 1
    /\ \A i \in Issued("ps5000aStop") :
         /\ Cardinality({j \in Issued("ps5000aGetValuesBulk") : j < i}) = 3
         /\ \A j \in Issued("ps5000aRunBlock") : j < i
         /\ Issued("ps5000aOpenUnit") = {1}
    /\ \A i \in Issued("ps5000aCloseUnit") :
         /\ i = Len(calls)
         /\ calls[i - 1].api = "ps5000aStop"
         /\ Done
    /\ InRunBlock => /\ Issued("ps5000aOpenUnit") = {1}
                     /\ Issued("ps5000aStop") = {}
    /\ Done => /\ Cardinality(Issued("ps5000aStop")) = 1
               /\ Cardinality(Issued("ps5000aCloseUnit")) = 1

C5_Witness ==
    /\ Done
    /\ calls[Len(calls)].api = "ps5000aCloseUnit"

(* C6: run_block returns unless the ready flag stays equal to check for    *)
(* ever, and there is no other way out of the poll loop: the loop is left  *)
(* only by a step taken with the ready flag different from check, so while *)
(* the device does not report ready neither the read-back nor stop_scope   *)
(* is reached.                                                             *)
C6_ReturnsIffDeviceReady ==
    /\ <>[](InRunBlock /\ ready = check) \/ []<>(~InRunBlock)
    /\ [][InRunBlock /\ ~InRunBlock' => ready # check]_vars
    /\ [](InRunBlock /\ ready = check =>
            /\ Issued("ps5000aStop") = {}
            /\ Cardinality(Issued("ps5000aGetValuesBulk")) <
                 Cardinality(Issued("ps5000aRunBlock")))

C6_Witness ==
    /\ InRunBlock
    /\ polls = MaxPolls
    /\ ready = check
    /\ Cardinality(Issued("ps5000aRunBlock")) = 3

\* The max_adc call i used is the value the last ps5000aMaximumValue wrote.
MaxAdcFetchedBefore(i) ==
    /\ LastIssued("ps5000aMaximumValue", i) # 0
    /\ calls[i].args.max_adc_set
    /\ calls[i].args.max_adc =
         calls[LastIssued("ps5000aMaximumValue", i)].args.value
    /\ calls[i].args.max_adc # 0

C8_ReadyResetBetweenCaptures ==
    /\ check = 0
    /\ ~InRunBlock => ready = 0 /\ ready = check
    /\ \A i \in Issued("ps5000aRunBlock") : calls[i].args.ready = check
    /\ \A i \in Issued("ps5000aGetValuesBulk") : calls[i].args.polled

C8_Witness ==
    /\ ~Done
    /\ Cur.line = 170
    /\ mpc = "entry"
    /\ Cardinality(Issued("ps5000aGetValuesBulk")) = 1

(* C9: at every ps5000aSetDataBuffer call the buffer length passed and at  *)
(* every ps5000aRunBlock call the sample count passed equal the            *)
(* buffer_size given to the constructor.                                   *)
C9_SampleCountIsBufferSize ==
    /\ \A i \in Issued("ps5000aSetDataBuffer") :
         calls[i].args.bufferLth = buffer_size
    /\ \A i \in Issued("ps5000aRunBlock") :
         calls[i].args.noOfSamples = buffer_size

(* C10: at every ps5000aRunBlock call exactly one channel is enabled, it   *)
(* is the source of the latest ps5000aSetSimpleTrigger and the channel of  *)
(* the latest ps5000aSetDataBuffer: channel 0 for the captures of lines    *)
(* 163 and 170, channel 1 for the capture of line 180.                     *)
C10_OneChannelArmed ==
    \A i \in Issued("ps5000aRunBlock") :
        LET c == IF calls[i].line = 180 THEN 1 ELSE 0
        IN  /\ {x \in 0 .. 3 : EnabledAfter(x, i)} = {c}
            /\ LastIssued("ps5000aSetSimpleTrigger", i) # 0
            /\ calls[LastIssued("ps5000aSetSimpleTrigger", i)].args.source = c
            /\ LastIssued("ps5000aSetDataBuffer", i) # 0
            /\ calls[LastIssued("ps5000aSetDataBuffer", i)].args.channel = c
            /\ Cardinality({j \in Issued("ps5000aRunBlock") : j < i}) =
                 (IF calls[i].line = 163 THEN 0
                  ELSE IF calls[i].line = 170 THEN 1 ELSE 2)

C10_Witness ==
    /\ InRunBlock
    /\ Cur.line = 180
    /\ calls[Len(calls)].api = "ps5000aRunBlock"

----------------------------------------------------------------------------
(* C3: read_hdf5 plots, for the entries of 'active_channels' in list       *)
(* order, the first capture of adc_counts_<channel> and then pha_<channel>,*)
(* one plot each: twice as many plots as entries, none for a channel not   *)
(* listed, the first one only after every metadata attribute is read.      *)
ExpectedPlots ==
    [i \in 1 .. 2 * Len(file.active_channels) |->
        LET c == file.active_channels[(i + 1) \div 2]
        IN  IF i % 2 = 1
            THEN [kind |-> "waveform", dataset |-> <<"adc_counts_", c>>,
                  capture |-> 0]
            ELSE [kind |-> "pha", dataset |-> <<"pha_", c>>, capture |-> 0]]

C3_TwoPlotsPerActiveChannel ==
    /\ IsPrefix(plots, ExpectedPlots)
    /\ rpc = "done" => /\ plots = ExpectedPlots
                       /\ Len(plots) = 2 * Len(file.active_channels)
    /\ \A i \in DOMAIN plots :
         plots[i].dataset[2] \in Range(file.active_channels)
    /\ plots # << >> => DOMAIN metadata = file.attrs

C3_Witness ==
    /\ rpc = "done"
    /\ file.active_channels = <<1, 0>>
    /\ file.attrs = AttrKeys
    /\ DatasetName("pha_", 2) \in file.datasets
    /\ Len(plots) = 4

====
